---- MODULE Spec2Model ----
(***************************************************************************)
(* Model of the security-sentinel network scan: address resolution, the    *)
(* sequential per-address scan loop, the socket probes and the four        *)
(* service checks, in both revisions of bin/network.js (the revision that  *)
(* probes through getHostBanner and queries the Vulners API, "api", and    *)
(* the revision with inline sockets and a hard-coded OpenSSH version,      *)
(* "legacy"), followed by the HTTP inspection with the redirect walk of    *)
(* testRedirectChainAndHTTPS.                                              *)
(*                                                                         *)
(* Strings that the code searches (banners, error messages) are sequences  *)
(* of one-character strings, so includes() and match() are computed.       *)
(*                                                                         *)
(* Event-loop semantics of Node.js: a handler runs to completion, promise  *)
(* continuations (microtasks) run before the next socket or timer event,   *)
(* socket.setTimeout is an idle timer that is refreshed by socket activity *)
(* (connect, data), a socket that reports 'error' has already been         *)
(* destroyed by the runtime, and socket.end() only half-closes.            *)
(***************************************************************************)
EXTENDS Integers, Sequences, FiniteSets, TLC

VARIABLES
    impl,           \* which revision of bin/network.js the scan imports
    pc,             \* position of the main scan function
    dnsOutcome,     \* how dnsPromises.resolve4 ended
    ipAddresses,    \* value returned by getIpAddresses
    i,              \* index of the address the loop is at (1-based)
    k,              \* index in CheckOrder of the check the loop is at
    started,        \* checks invoked so far, in order: [addr, port]
    finished,       \* number of check promises the loop has awaited
    stage,          \* "probe": socket phase, "lookup": awaiting the Vulners API
    sock,           \* socket of the running check
    idle,           \* seconds since the last activity on that socket
    elapsed,        \* seconds since connect initiation (saturates)
    connected,      \* the running check's socket has been connected
    bannerPromise,  \* promise returned by getHostBanner
    banner,         \* first data chunk read from the socket
    errKind,        \* error the socket reported
    cert,           \* peer certificate seen by the TLS check
    cause,          \* event that decided the running check
    promise,        \* promise returned by the running check
    result,         \* value that promise resolved with
    lingering,      \* sockets still open after their check has been awaited
    lookups,        \* queries the running check has sent to the Vulners API
    query,          \* the last query it sent
    lateLines,      \* checks that printed an outcome after they had settled
    currentUrl,     \* URL the redirect walk requests next
    redirectChain,  \* Location values the walk has collected
    pureFn,         \* pure function under test: "infer", "parse" or "none"
    pureArg,        \* its argument
    pureRet,        \* its return value
    pureDone        \* it has been applied

vars == <<impl, pc, dnsOutcome, ipAddresses, i, k, started, finished, stage,
          sock, idle, elapsed, connected, bannerPromise, banner, errKind,
          cert, cause, promise, result, lingering,
          lookups, query, lateLines, currentUrl, redirectChain,
          pureFn, pureArg, pureRet, pureDone>>

----------------------------------------------------------------------------
(* Bounds *)

MaxChain == 2       \* Location values of a redirect walk that are kept
MaxAddrs == 2       \* longest address list the resolver returns
MaxElapsed == 7     \* the elapsed-time counter saturates here
MaxEntries == 2     \* longest result list of a Vulners response
MaxVulns == 2       \* longest vulnerability list of a result entry

(* Program constants *)

TIMEOUT == 5        \* socket.setTimeout(5000), in seconds

----------------------------------------------------------------------------
(* Strings *)

S_ESMTP == <<"E","S","M","T","P">>
S_STARTTLS == <<"S","T","A","R","T","T","L","S">>
S_ECONNREFUSED == <<"E","C","O","N","N","R","E","F","U","S","E","D">>
S_TimedOut == <<"C","o","n","n","e","c","t","i","o","n"," ",
                "t","i","m","e","d"," ","o","u","t">>
S_OpenSSH_ == <<"O","p","e","n","S","S","H","_">>
S_220 == <<"2","2","0"," ">>
S_SSH20 == <<"S","S","H","-","2",".","0","-">>

\* String.prototype.includes
Includes(s, t) ==
    \E p \in 0..(Len(s) - Len(t)) : SubSeq(s, p + 1, p + Len(t)) = t

\* err.message of the errors a socket can report, and of the timeout error
\* that getHostBanner builds itself
ErrorMessage(kind) ==
    CASE kind = "timeout" -> S_TimedOut
      [] kind = "ECONNREFUSED" ->
            <<"c","o","n","n","e","c","t"," ">> \o S_ECONNREFUSED
      [] kind = "EHOSTUNREACH" ->
            <<"c","o","n","n","e","c","t"," ",
              "E","H","O","S","T","U","N","R","E","A","C","H">>
      [] kind = "ECONNRESET" ->
            <<"r","e","a","d"," ","E","C","O","N","N","R","E","S","E","T">>

\* errors a socket can report before and after the connection is established
PreConnectErrors == {"ECONNREFUSED", "EHOSTUNREACH"}
PostConnectErrors == {"ECONNRESET"}

\* first chunks a peer may send
Banners ==
    { S_220 \o S_ESMTP,
      S_220 \o S_ESMTP \o <<" ">> \o S_STARTTLS,
      S_220 \o <<"S","M","T","P">>,
      S_SSH20 \o S_OpenSSH_ \o <<"9",".","6">>,
      S_SSH20 \o S_OpenSSH_ \o <<"8",".","9","p","1">>,
      S_SSH20 \o <<"d","r","o","p","b","e","a","r">> }

NoBanner == <<>>

\* peer certificates as socket.getPeerCertificate() returns them: the empty
\* object when the peer provided none, else issuer and subject objects whose
\* CN may be absent
Undefined == "undefined"

\* no query has been built; no URL is being walked
NoQuery == [software |-> <<>>, operating_system |-> <<>>, fields |-> <<>>]
NoUrl == <<>>
CNs == {Undefined, "ca", "host"}
EmptyCert == [hasIssuer |-> FALSE, issuerCN |-> Undefined, subjectCN |-> Undefined]
Certs == {EmptyCert} \cup
         [hasIssuer : {TRUE}, issuerCN : CNs, subjectCN : CNs]

----------------------------------------------------------------------------
(* inferSystemDetails *)

Upper == <<"A","B","C","D","E","F","G","H","I","J","K","L","M","N","O","P","Q","R","S","T","U","V","W","X","Y","Z">>
Lower == <<"a","b","c","d","e","f","g","h","i","j","k","l","m","n","o","p","q","r","s","t","u","v","w","x","y","z">>

LowerChar(ch) ==
    IF \E n \in 1..Len(Upper) : Upper[n] = ch
      THEN Lower[CHOOSE n \in 1..Len(Upper) : Upper[n] = ch]
      ELSE ch

\* String.prototype.toLowerCase
ToLowerCase(s) == [n \in 1..Len(s) |-> LowerChar(s[n])]

\* the characters \s matches
Whitespace == {" ", "\t", "\n", "\r"}

\* the characters [-\s] matches
VersionSeparators == {"-"} \cup Whitespace

Digits == {"0", "1", "2", "3", "4", "5", "6", "7", "8", "9"}
VersionChar(ch) == ch \in Digits \cup {"."}

\* last index of the run of [\d.] characters that starts at p
RECURSIVE RunEnd(_, _)
RunEnd(s, p) ==
    IF p <= Len(s) /\ VersionChar(s[p]) THEN RunEnd(s, p + 1) ELSE p - 1

\* last index of the run of \d characters that starts at p
RECURSIVE DigitRunEnd(_, _)
DigitRunEnd(s, p) ==
    IF p <= Len(s) /\ s[p] \in Digits THEN DigitRunEnd(s, p + 1) ELSE p - 1

\* last index of the run of \S characters that starts at p
RECURSIVE TokenEnd(_, _)
TokenEnd(s, p) ==
    IF p <= Len(s) /\ s[p] \notin Whitespace THEN TokenEnd(s, p + 1) ELSE p - 1

S_unknown == <<"u","n","k","n","o","w","n">>
S_openbsd == <<"o","p","e","n","b","s","d">>
S_SSH == <<"S","S","H","-">>

\* the value of a variable that destructuring left unassigned
JsUndefined == <<"(undefined)">>

\* the vendor table in the vendor-first order of a rewrite
OsTable_DebianFirst ==
    << [product |-> <<"d","e","b","i","a","n">>,
        vendor |-> <<"d","e","b","i","a","n">>],
       [product |-> <<"u","b","u","n","t","u">>,
        vendor |-> <<"c","a","n","o","n","i","c","a","l">>],
       [product |-> <<"c","e","n","t","o","s">>,
        vendor |-> <<"c","e","n","t","o","s">>],
       [product |-> <<"e","n","t","e","r","p","r","i","s","e","_","l","i","n","u","x">>,
        vendor |-> <<"r","e","d","h","a","t">>],
       [product |-> <<"f","e","d","o","r","a">>,
        vendor |-> <<"f","e","d","o","r","a">>],
       [product |-> <<"a","l","p","i","n","e","_","l","i","n","u","x">>,
        vendor |-> <<"a","l","p","i","n","e">>],
       [product |-> <<"a","m","a","z","o","n","_","l","i","n","u","x">>,
        vendor |-> <<"a","m","a","z","o","n">>] >>

\* Object.entries(vendor): the keys in insertion order
OsTable ==
    << [product |-> <<"u","b","u","n","t","u">>,
        vendor |-> <<"c","a","n","o","n","i","c","a","l">>],
       [product |-> <<"d","e","b","i","a","n">>,
        vendor |-> <<"d","e","b","i","a","n">>],
       [product |-> <<"c","e","n","t","o","s">>,
        vendor |-> <<"c","e","n","t","o","s">>],
       [product |-> <<"e","n","t","e","r","p","r","i","s","e","_","l","i","n","u","x">>,
        vendor |-> <<"r","e","d","h","a","t">>],
       [product |-> <<"f","e","d","o","r","a">>,
        vendor |-> <<"f","e","d","o","r","a">>],
       [product |-> <<"a","l","p","i","n","e","_","l","i","n","u","x">>,
        vendor |-> <<"a","l","p","i","n","e">>],
       [product |-> <<"a","m","a","z","o","n","_","l","i","n","u","x">>,
        vendor |-> <<"a","m","a","z","o","n">>] >>

UnknownOperatingSystem ==
    [part |-> "o", vendor |-> S_unknown, product |-> S_unknown, version |-> S_unknown]

\* the version pattern without its optional separator: product([\d.]+)
OsVersionMatch_NoSeparator(b, product) ==
    LET L == Len(product)
        starts == { p \in 1..Len(b) :
                      /\ p + L <= Len(b)
                      /\ ToLowerCase(SubSeq(b, p, p + L - 1)) = product
                      /\ VersionChar(b[p + L]) }
    IN  IF starts = {} THEN <<>>
        ELSE LET p == CHOOSE q \in starts : \A r \in starts : q <= r
             IN  SubSeq(b, p + L, RunEnd(b, p + L))

\* banner.match(new RegExp(`${product}[-\\s]?([\\d.]+)`, "i")): the captured
\* group of the leftmost match, <<>> for no match
OsVersionMatch(b, product) ==
    LET L == Len(product)
        starts == { p \in 1..Len(b) :
                      /\ p + L <= Len(b)
                      /\ ToLowerCase(SubSeq(b, p, p + L - 1)) = product
                      /\ \/ VersionChar(b[p + L])
                         \/ /\ b[p + L] \in VersionSeparators
                            /\ p + L + 1 <= Len(b)
                            /\ VersionChar(b[p + L + 1]) }
    IN  IF starts = {} THEN <<>>
        ELSE LET p == CHOOSE q \in starts : \A r \in starts : q <= r
                 f == IF b[p + L] \in VersionSeparators THEN p + L + 1 ELSE p + L
             IN  SubSeq(b, f, RunEnd(b, f))

\* the for-of loop over the vendor table, from entry n on, with its break
RECURSIVE InferOperatingSystem(_, _)
InferOperatingSystem(b, n) ==
    IF n > Len(OsTable) THEN UnknownOperatingSystem
    ELSE IF Includes(ToLowerCase(b), OsTable[n].product)
      THEN LET versionMatch == OsVersionMatch(b, OsTable[n].product)
           IN  [part |-> "o",
                vendor |-> OsTable[n].vendor,
                product |-> OsTable[n].product,
                version |-> IF versionMatch # <<>> THEN versionMatch ELSE S_unknown]
      ELSE InferOperatingSystem(b, n + 1)

\* where the token of a match of /SSH-\d+\.\d+-(\S+)/ that begins at p
\* starts, 0 when the pattern does not match at p
SshTokenStart(b, p) ==
    IF p + 3 <= Len(b) /\ SubSeq(b, p, p + 3) = S_SSH
      THEN LET d1 == DigitRunEnd(b, p + 4)
           IN  IF d1 >= p + 4 /\ d1 + 1 <= Len(b) /\ b[d1 + 1] = "."
                 THEN LET d2 == DigitRunEnd(b, d1 + 2)
                      IN  IF /\ d2 >= d1 + 2
                             /\ d2 + 2 <= Len(b)
                             /\ b[d2 + 1] = "-"
                             /\ b[d2 + 2] \notin Whitespace
                            THEN d2 + 2
                            ELSE 0
                 ELSE 0
      ELSE 0

\* the signature pattern matched without regard to letter case
SshSoftwareMatch_IgnoreCase(b) ==
    LET u == [n \in 1..Len(b) |-> IF b[n] = "s" THEN "S"
                                    ELSE IF b[n] = "h" THEN "H" ELSE b[n]]
        starts == { p \in 1..Len(b) : SshTokenStart(u, p) # 0 }
    IN  IF starts = {} THEN <<>>
        ELSE LET p == CHOOSE q \in starts : \A r \in starts : q <= r
                 f == SshTokenStart(u, p)
             IN  SubSeq(b, f, TokenEnd(b, f))

\* banner.match(/SSH-\d+\.\d+-(\S+)/): the captured token of the leftmost
\* match, <<>> for no match
SshSoftwareMatch(b) ==
    LET starts == { p \in 1..Len(b) : SshTokenStart(b, p) # 0 }
    IN  IF starts = {} THEN <<>>
        ELSE LET p == CHOOSE q \in starts : \A r \in starts : q <= r
                 f == SshTokenStart(b, p)
             IN  SubSeq(b, f, TokenEnd(b, f))

\* index of the first "_" of t at or after from, 0 when there is none
UnderscoreIndex(t, from) ==
    LET at == { n \in from..Len(t) : t[n] = "_" }
    IN  IF at = {} THEN 0 ELSE CHOOSE n \in at : \A m \in at : n <= m

\* const [product, version] = softwareDetails.split('_'): the first two
\* pieces; version is undefined when the token has no underscore
SplitProductVersion(t) ==
    LET u1 == UnderscoreIndex(t, 1)
        u2 == IF u1 = 0 THEN 0 ELSE UnderscoreIndex(t, u1 + 1)
    IN  [product |-> IF u1 = 0 THEN t ELSE SubSeq(t, 1, u1 - 1),
         version |-> IF u1 = 0 THEN JsUndefined
                     ELSE IF u2 = 0 THEN SubSeq(t, u1 + 1, Len(t))
                     ELSE SubSeq(t, u1 + 1, u2 - 1)]

\* the software entry pushed without product.toLowerCase()
SoftwareEntry_KeepCase(t) ==
    LET pv == SplitProductVersion(t)
    IN  [part |-> "a", vendor |-> S_openbsd, product |-> pv.product,
         version |-> pv.version]

\* the entry pushed to systemDetails.software for a matched token
SoftwareEntry(t) ==
    LET pv == SplitProductVersion(t)
    IN  [part |-> "a", vendor |-> S_openbsd, product |-> ToLowerCase(pv.product),
         version |-> pv.version]

\* function inferSystemDetails(banner)
InferSystemDetails(b) ==
    LET sshSoftwareMatch == SshSoftwareMatch(b)
    IN  [operating_system |-> InferOperatingSystem(b, 1),
         software |-> IF sshSoftwareMatch # <<>>
                        THEN <<SoftwareEntry(sshSoftwareMatch)>>
                        ELSE <<>>]

\* banners the inference is applied to: an SSH part followed by up to two
\* OS parts, and an OS part followed by an SSH part
SshParts ==
    { <<>>,
      <<"S","S","H","-","2",".","0","-","O","p","e","n","S","S","H","_","9",".","6">>,
      <<"S","S","H","-","2",".","0","-","O","p","e","n","S","S","H","_","9",".","6","p","1">>,
      <<"S","S","H","-","2",".","0","-","O","p","e","n","S","S","H","_","9",".","6","_","x">>,
      <<"S","S","H","-","2",".","0","-","O","p","e","n","S","S","H","_","f","o","r","_","W","i","n","d","o","w","s","_","8",".","1">>,
      <<"S","S","H","-","2",".","0","-","d","r","o","p","b","e","a","r">>,
      <<"S","S","H","-","1",".","9","9","-","C","i","s","c","o","_","1",".","2","5"," ","S","S","H","-","2",".","0","-","O","p","e","n","S","S","H","_","9",".","6">>,
      <<"s","s","h","-","2",".","0","-","O","p","e","n","S","S","H","_","9",".","6">>,
      <<"S","S","H","-","2","-","O","p","e","n","S","S","H","_","9",".","6">>,
      <<"S","S","H","-","2",".","0","-"," ","x">> }

OsParts ==
    { <<>>,
      <<" ","U","b","u","n","t","u","-","2","2",".","0","4">>,
      <<" ","u","b","u","n","t","u","-","2","2",".","0","4">>,
      <<" ","u","b","u","n","t","u","-","2","2",".","0","4",".","1">>,
      <<" ","u","b","u","n","t","u"," ","2","0"," ","u","b","u","n","t","u","-","2","2",".","0","4">>,
      <<" ","u","b","u","n","t","u">>,
      <<" ","U","b","u","n","t","u","-"," ","9">>,
      <<" ","D","e","b","i","a","n"," ","1","2">>,
      <<" ","d","e","b","i","a","n">>,
      <<" ","C","e","n","t","O","S","7">>,
      <<" ","e","n","t","e","r","p","r","i","s","e","_","l","i","n","u","x","\t","8",".","9">>,
      <<" ","f","e","d","o","r","a","_","3","9">>,
      <<" ","a","l","p","i","n","e","_","l","i","n","u","x","-","3",".","1","8">>,
      <<" ","a","m","a","z","o","n","_","l","i","n","u","x"," ","2">>,
      <<" ","l","i","n","u","x"," ","5",".","4">> }

InferBanners ==
    { a \o b \o c : a \in SshParts, b \in OsParts, c \in OsParts }
    \cup { b \o <<" ">> \o a : a \in SshParts, b \in OsParts }

----------------------------------------------------------------------------
(* The scan *)

Hostname == "h"
Addresses == <<"a1", "a2", "a3">>
AddrLists == { SubSeq(Addresses, 1, n) : n \in 1..MaxAddrs }
DnsOutcomes == {"ok", "ENOTFOUND", "ENODATA", "ESERVFAIL"}

\* the loop body with the first two awaits exchanged
CheckOrder_CertFirst == <<"tls", "mysql", "mail", "ssh">>

\* the order of the awaits in the loop body
CheckOrder == <<"mysql", "tls", "mail", "ssh">>

\* default port of each check
Port(c) ==
    CASE c = "mysql" -> 3306
      [] c = "tls" -> 443
      [] c = "mail" -> 25
      [] c = "ssh" -> 22

Check == CheckOrder[k]
Current == [addr |-> ipAddresses[i], port |-> Port(Check)]

\* the checks that go through getHostBanner (api revision)
UsesBanner == impl = "api" /\ Check \in {"mysql", "mail", "ssh"}

\* the TLS check never calls socket.setTimeout
HasTimer == Check # "tls"

\* the event loop is free to deliver a socket or timer event: the running
\* check is awaited and no promise continuation is pending
Idle ==
    /\ pc = "await"
    /\ promise = "pending"
    /\ (stage = "lookup" \/ bannerPromise \in {"none", "pending"})

SockOpen == sock \in {"connecting", "connected", "ended"}

OpenSockets == lingering \cup (IF pc = "await" /\ SockOpen THEN {Current} ELSE {})

Init ==
    /\ impl \in {"api", "legacy"}
    /\ pc = "dns"
    /\ dnsOutcome = "none"
    /\ ipAddresses = <<>>
    /\ i = 1
    /\ k = 1
    /\ started = <<>>
    /\ finished = 0
    /\ stage = "none"
    /\ sock = "none"
    /\ idle = 0
    /\ elapsed = 0
    /\ connected = FALSE
    /\ bannerPromise = "none"
    /\ banner = NoBanner
    /\ errKind = "none"
    /\ cert = EmptyCert
    /\ cause = "none"
    /\ promise = "none"
    /\ result = "none"
    /\ lingering = {}
    /\ lookups = 0
    /\ query = NoQuery
    /\ lateLines = {}
    /\ currentUrl = NoUrl
    /\ redirectChain = <<>>
    /\ pureFn = "none"
    /\ pureArg = <<>>
    /\ pureRet = <<>>
    /\ pureDone = FALSE

probeVars == <<stage, sock, idle, elapsed, connected, bannerPromise, banner,
               errKind, cert, cause, promise, result>>
loopVars == <<impl, pc, dnsOutcome, ipAddresses, i, k, started, finished>>
pureVars == <<pureFn, pureArg, pureRet, pureDone>>
lookupVars == <<lookups, query>>
walkVars == <<currentUrl, redirectChain>>

\* getIpAddresses that returns [] only for the two error codes it names and
\* falls back to the host name for any other resolver error
GetIpAddressesResult_Fallback(outcome, addrs) ==
    IF outcome = "ok" THEN addrs
    ELSE IF outcome \in {"ENOTFOUND", "ENODATA"} THEN <<>>
    ELSE <<Hostname>>

\* value of getIpAddresses for an outcome of resolve4
GetIpAddressesResult(outcome, addrs) ==
    IF outcome = "ok" THEN addrs ELSE <<>>

\* const ipAddresses = await network.getIpAddresses(hostname)
GetIpAddresses ==
    /\ pc = "dns"
    /\ \E outcome \in DnsOutcomes, addrs \in AddrLists :
          /\ dnsOutcome' = outcome
          /\ ipAddresses' = GetIpAddressesResult(outcome, addrs)
    /\ pc' = "loop"
    /\ UNCHANGED <<impl, i, k, started, finished, lingering>>
    /\ UNCHANGED pureVars
    /\ UNCHANGED <<lookupVars, lateLines, walkVars>>
    /\ UNCHANGED probeVars

\* one await of the loop body: the check is invoked, which creates its
\* socket, arms the idle timer and initiates the connect
StartCheck ==
    /\ pc = "loop"
    /\ i <= Len(ipAddresses)
    /\ started' = Append(started, [addr |-> ipAddresses[i], port |-> Port(CheckOrder[k])])
    /\ pc' = "await"
    /\ stage' = "probe"
    /\ sock' = "connecting"
    /\ idle' = 0
    /\ elapsed' = 0
    /\ connected' = FALSE
    /\ bannerPromise' = IF UsesBanner THEN "pending" ELSE "none"
    /\ banner' = NoBanner
    /\ errKind' = "none"
    /\ cert' = EmptyCert
    /\ cause' = "none"
    /\ promise' = "pending"
    /\ result' = "none"
    /\ UNCHANGED <<impl, dnsOutcome, ipAddresses, i, k, finished, lingering>>
    /\ UNCHANGED pureVars
    /\ lookups' = 0
    /\ query' = NoQuery
    /\ UNCHANGED <<lateLines, walkVars>>

\* the awaited check promise has settled: the loop moves on to the next
\* check or the next address; a socket the check did not close stays open
AwaitResume ==
    /\ pc = "await"
    /\ promise = "resolved"
    /\ finished' = finished + 1
    /\ lingering' = IF SockOpen THEN lingering \cup {Current} ELSE lingering
    /\ IF k < Len(CheckOrder)
         THEN k' = k + 1 /\ i' = i
         ELSE k' = 1 /\ i' = i + 1
    /\ pc' = "loop"
    /\ stage' = "none"
    /\ sock' = "none"
    /\ idle' = 0
    /\ elapsed' = 0
    /\ connected' = FALSE
    /\ bannerPromise' = "none"
    /\ banner' = NoBanner
    /\ errKind' = "none"
    /\ cert' = EmptyCert
    /\ cause' = "none"
    /\ promise' = "none"
    /\ result' = "none"
    /\ UNCHANGED <<impl, dnsOutcome, ipAddresses, started>>
    /\ UNCHANGED pureVars
    /\ lookups' = 0
    /\ query' = NoQuery
    /\ UNCHANGED <<lateLines, walkVars>>

\* the for-of loop is exhausted
LoopExit ==
    /\ pc = "loop"
    /\ i > Len(ipAddresses)
    /\ pc' = "http"
    /\ UNCHANGED <<impl, dnsOutcome, ipAddresses, i, k, started, finished, lingering>>
    /\ UNCHANGED pureVars
    /\ UNCHANGED <<lookupVars, lateLines, walkVars>>
    /\ UNCHANGED probeVars

\* const url = `http://${hostname}` of getUserInput
S_http == <<"h","t","t","p",":","/","/">>
S_https == <<"h","t","t","p","s",":","/","/">>
Url == <<"h","t","t","p",":","/","/","h">>

\* values of the Location header a server may send: absolute URLs and an
\* absolute path; NoLocation when the header is missing
Locations == { <<"h","t","t","p",":","/","/","h","/">>, <<"h","t","t","p","s",":","/","/","h","/">>, <<"h","t","t","p","s",":","/","/","o","/">>, <<"/">> }
NoLocation == <<>>
Statuses == {200, 300, 301}
HopResponses == [status : Statuses, location : Locations \cup {NoLocation}]

StartsWith(s, t) == Len(s) >= Len(t) /\ SubSeq(s, 1, Len(t)) = t

\* scheme and host of an absolute URL: all that precedes the first slash
\* after the two slashes of the scheme
Origin(u) ==
    LET from == IF StartsWith(u, S_https) THEN Len(S_https) + 1 ELSE Len(S_http) + 1
        slashes == { p \in from..Len(u) : u[p] = "/" }
    IN  IF slashes = {} THEN u
        ELSE SubSeq(u, 1, (CHOOSE p \in slashes : \A q \in slashes : p <= q) - 1)

\* new URL(location, base).href for an absolute URL with a path and for an
\* absolute path
Href(location, base) ==
    IF StartsWith(location, S_http) \/ StartsWith(location, S_https)
      THEN location
      ELSE Origin(base) \o location

\* redirectChain.push(location); the model keeps the first MaxChain values
ChainPush(chain, location) ==
    IF Len(chain) < MaxChain THEN Append(chain, location) ELSE chain

\* the event loop is free to deliver events of sockets left open
Awaiting == Idle \/ pc \in {"walk", "inspect", "done"}

\* const response = await fetch(url) inside try: when it resolves,
\* testRedirectChainAndHTTPS(url) starts with an empty chain; when it rejects
\* the catch block logs and the scan ends with console.log()
HttpInspection ==
    /\ pc = "http"
    /\ \/ /\ pc' = "walk"
          /\ currentUrl' = Url
          /\ redirectChain' = <<>>
       \/ /\ pc' = "done"
          /\ UNCHANGED walkVars
    /\ UNCHANGED <<impl, dnsOutcome, ipAddresses, i, k, started, finished, lingering>>
    /\ UNCHANGED pureVars
    /\ UNCHANGED probeVars
    /\ UNCHANGED <<lookupVars, lateLines>>

\* one round of the do-while of testRedirectChainAndHTTPS: the fetch with
\* redirect: 'manual' resolves with a response (or rejects, which the catch
\* block of the caller takes); with a Location the chain grows and the loop
\* goes on while the status is 3xx, without one the loop breaks
TestRedirectChainAndHTTPS_Hop ==
    /\ pc = "walk"
    /\ \/ /\ pc' = "done"
          /\ UNCHANGED walkVars
       \/ \E r \in HopResponses :
             IF r.location # NoLocation
               THEN /\ redirectChain' = ChainPush(redirectChain, r.location)
                    /\ currentUrl' = Href(r.location, currentUrl)
                    /\ pc' = IF r.status >= 300 /\ r.status < 400
                               THEN "walk" ELSE "inspect"
               ELSE /\ pc' = "inspect"
                    /\ UNCHANGED walkVars
    /\ UNCHANGED <<impl, dnsOutcome, ipAddresses, i, k, started, finished, lingering>>
    /\ UNCHANGED pureVars
    /\ UNCHANGED probeVars
    /\ UNCHANGED <<lookupVars, lateLines>>

\* the verdict lines of testRedirectChainAndHTTPS and the remaining tests
\* (headers, CSP, cookies, browser logs), then the final console.log()
HttpInspection_Rest ==
    /\ pc = "inspect"
    /\ pc' = "done"
    /\ UNCHANGED <<impl, dnsOutcome, ipAddresses, i, k, started, finished, lingering>>
    /\ UNCHANGED pureVars
    /\ UNCHANGED probeVars
    /\ UNCHANGED <<lookupVars, lateLines, walkVars>>

----------------------------------------------------------------------------
(* Time *)

Min(a, b) == IF a < b THEN a ELSE b

\* one second passes while a probe waits on its socket; an armed idle timer
\* fires no later than TIMEOUT after the last activity
Tick ==
    /\ Idle
    /\ stage = "probe"
    /\ sock \in {"connecting", "connected"}
    /\ IF HasTimer THEN idle < TIMEOUT ELSE elapsed < MaxElapsed
    /\ idle' = IF HasTimer THEN idle + 1 ELSE idle
    /\ elapsed' = Min(elapsed + 1, MaxElapsed)
    /\ UNCHANGED <<stage, sock, connected, bannerPromise, banner, errKind,
                   cert, cause, promise, result, lingering>>
    /\ UNCHANGED loopVars
    /\ UNCHANGED pureVars
    /\ UNCHANGED <<lookupVars, lateLines, walkVars>>

\* the peer closes a connection that a finished check left half-closed
LingerClose ==
    /\ Awaiting
    /\ \E s \in lingering : lingering' = lingering \ {s}
    /\ UNCHANGED loopVars
    /\ UNCHANGED pureVars
    /\ UNCHANGED <<lookupVars, lateLines, walkVars>>
    /\ UNCHANGED probeVars

\* a socket the TLS check left half-closed reports an error (the peer resets
\* the connection): its on('error') handler prints the error line again and
\* calls resolve(false), which no longer changes the settled promise
TestSelfSignedCertificate_LateError ==
    /\ Awaiting
    /\ \E s \in lingering :
          /\ s.port = Port("tls")
          /\ lingering' = lingering \ {s}
          /\ lateLines' = lateLines \cup {s}
    /\ UNCHANGED loopVars
    /\ UNCHANGED pureVars
    /\ UNCHANGED probeVars
    /\ UNCHANGED <<lookupVars, walkVars>>

----------------------------------------------------------------------------
(* getHostBanner (api revision) *)

\* socket.connect callback: registers the once('data') listener
GetHostBanner_Connect ==
    /\ Idle /\ UsesBanner /\ stage = "probe"
    /\ sock = "connecting"
    /\ sock' = "connected"
    /\ connected' = TRUE
    /\ idle' = 0
    /\ UNCHANGED <<stage, elapsed, bannerPromise, banner, errKind, cert,
                   cause, promise, result, lingering>>
    /\ UNCHANGED loopVars
    /\ UNCHANGED pureVars
    /\ UNCHANGED <<lookupVars, lateLines, walkVars>>

\* once('data'): socket.destroy(); resolve(data.toString())
GetHostBanner_Data ==
    /\ Idle /\ UsesBanner /\ stage = "probe"
    /\ sock = "connected"
    /\ \E b \in Banners : banner' = b
    /\ sock' = "destroyed"
    /\ bannerPromise' = "resolved"
    /\ cause' = "data"
    /\ UNCHANGED <<stage, idle, elapsed, connected, errKind, cert, promise,
                   result, lingering>>
    /\ UNCHANGED loopVars
    /\ UNCHANGED pureVars
    /\ UNCHANGED <<lookupVars, lateLines, walkVars>>

\* on('error'): socket.destroy(); reject(err)
GetHostBanner_Error ==
    /\ Idle /\ UsesBanner /\ stage = "probe"
    /\ sock \in {"connecting", "connected"}
    /\ \E e \in (IF sock = "connecting" THEN PreConnectErrors ELSE PostConnectErrors) :
          errKind' = e
    /\ sock' = "destroyed"
    /\ bannerPromise' = "rejected"
    /\ cause' = "error"
    /\ UNCHANGED <<stage, idle, elapsed, connected, banner, cert, promise,
                   result, lingering>>
    /\ UNCHANGED loopVars
    /\ UNCHANGED pureVars
    /\ UNCHANGED <<lookupVars, lateLines, walkVars>>

\* the timeout handler without its socket.destroy()
GetHostBanner_Timeout_NoDestroy ==
    /\ Idle /\ UsesBanner /\ stage = "probe"
    /\ sock \in {"connecting", "connected"}
    /\ idle = TIMEOUT
    /\ errKind' = "timeout"
    /\ bannerPromise' = "rejected"
    /\ cause' = "timeout"
    /\ UNCHANGED <<stage, sock, idle, elapsed, connected, banner, cert, promise,
                   result, lingering>>
    /\ UNCHANGED loopVars
    /\ UNCHANGED pureVars
    /\ UNCHANGED <<lookupVars, lateLines, walkVars>>

\* the timeout handler settling the probe as a success with no banner
GetHostBanner_Timeout_Resolves ==
    /\ Idle /\ UsesBanner /\ stage = "probe"
    /\ sock \in {"connecting", "connected"}
    /\ idle = TIMEOUT
    /\ errKind' = "timeout"
    /\ sock' = "destroyed"
    /\ bannerPromise' = "resolved"
    /\ cause' = "timeout"
    /\ UNCHANGED <<stage, idle, elapsed, connected, banner, cert, promise,
                   result, lingering>>
    /\ UNCHANGED loopVars
    /\ UNCHANGED pureVars
    /\ UNCHANGED <<lookupVars, lateLines, walkVars>>

\* on('timeout'): socket.destroy(); reject(new Error('Connection timed out'))
GetHostBanner_Timeout ==
    /\ Idle /\ UsesBanner /\ stage = "probe"
    /\ sock \in {"connecting", "connected"}
    /\ idle = TIMEOUT
    /\ errKind' = "timeout"
    /\ sock' = "destroyed"
    /\ bannerPromise' = "rejected"
    /\ cause' = "timeout"
    /\ UNCHANGED <<stage, idle, elapsed, connected, banner, cert, promise,
                   result, lingering>>
    /\ UNCHANGED loopVars
    /\ UNCHANGED pureVars
    /\ UNCHANGED <<lookupVars, lateLines, walkVars>>

----------------------------------------------------------------------------
(* Service checks of the api revision, built on getHostBanner *)

\* error.message.includes("Connection timed out") ||
\* error.message.includes("ECONNREFUSED")
NotExposedError(kind) ==
    \/ Includes(ErrorMessage(kind), S_TimedOut)
    \/ Includes(ErrorMessage(kind), S_ECONNREFUSED)

\* value testMySQLService returns once getHostBanner has settled
MySQLServiceResult(settled, b, kind) ==
    IF settled = "resolved"
      THEN (IF Len(b) > 0 THEN "false" ELSE "false")
      ELSE (IF NotExposedError(kind) THEN "true" ELSE "false")

\* value testEmailServiceWithoutTLS returns once getHostBanner has settled
EmailServiceResult(settled, b, kind) ==
    IF settled = "resolved"
      THEN (IF Includes(b, S_ESMTP) /\ ~Includes(b, S_STARTTLS) THEN "false" ELSE "true")
      ELSE (IF NotExposedError(kind) THEN "true" ELSE "false")

BannerSettled ==
    /\ pc = "await" /\ impl = "api" /\ stage = "probe"
    /\ promise = "pending"
    /\ bannerPromise \in {"resolved", "rejected"}

\* async testMySQLService resumes after await getHostBanner
TestMySQLService ==
    /\ BannerSettled /\ Check = "mysql"
    /\ result' = MySQLServiceResult(bannerPromise, banner, errKind)
    /\ promise' = "resolved"
    /\ UNCHANGED <<stage, sock, idle, elapsed, connected, bannerPromise,
                   banner, errKind, cert, cause, lingering>>
    /\ UNCHANGED loopVars
    /\ UNCHANGED pureVars
    /\ UNCHANGED <<lookupVars, lateLines, walkVars>>

\* async testEmailServiceWithoutTLS resumes after await getHostBanner
TestEmailServiceWithoutTLS ==
    /\ BannerSettled /\ Check = "mail"
    /\ result' = EmailServiceResult(bannerPromise, banner, errKind)
    /\ promise' = "resolved"
    /\ UNCHANGED <<stage, sock, idle, elapsed, connected, bannerPromise,
                   banner, errKind, cert, cause, lingering>>
    /\ UNCHANGED loopVars
    /\ UNCHANGED pureVars
    /\ UNCHANGED <<lookupVars, lateLines, walkVars>>

\* const query = { software, operating_system, fields } built from
\* inferSystemDetails(banner)
QueryFields == <<"title", "short_description", "cvelist", "ai_score", "metrics">>
VulnersQuery(systemDetails) ==
    [software |-> systemDetails.software,
     operating_system |-> systemDetails.operating_system,
     fields |-> QueryFields]

\* inferSystemDetails(banner) for every value the banner of a probe can
\* have, computed once
SystemDetailsOf == [b \in Banners \cup {NoBanner} |-> InferSystemDetails(b)]

\* testOpenSSHVersion that catches the banner failure itself and queries the
\* API with whatever inferSystemDetails makes of an empty banner
TestOpenSSHVersion_QueriesAnyway ==
    /\ BannerSettled /\ Check = "ssh"
    /\ stage' = "lookup"
    /\ lookups' = lookups + 1
    /\ query' = VulnersQuery(SystemDetailsOf[banner])
    /\ UNCHANGED <<promise, result>>
    /\ UNCHANGED <<sock, idle, elapsed, connected, bannerPromise, banner,
                   errKind, cert, cause, lingering>>
    /\ UNCHANGED loopVars
    /\ UNCHANGED pureVars
    /\ UNCHANGED <<lateLines, walkVars>>

\* testOpenSSHVersion resumes after await getHostBanner: with a banner it
\* builds the query and calls queryVulnersAPI, which sends it; on a rejection
\* the catch block logs and the finally block calls resolve()
TestOpenSSHVersion ==
    /\ BannerSettled /\ Check = "ssh"
    /\ IF bannerPromise = "resolved"
         THEN /\ stage' = "lookup"
              /\ lookups' = lookups + 1
              /\ query' = VulnersQuery(SystemDetailsOf[banner])
              /\ UNCHANGED <<promise, result>>
         ELSE /\ promise' = "resolved"
              /\ result' = Undefined
              /\ UNCHANGED <<stage, lookups, query>>
    /\ UNCHANGED <<sock, idle, elapsed, connected, bannerPromise, banner,
                   errKind, cert, cause, lingering>>
    /\ UNCHANGED loopVars
    /\ UNCHANGED pureVars
    /\ UNCHANGED <<lateLines, walkVars>>

\* how the request to the Vulners API ends: a 2xx answer, a non-2xx answer,
\* or a fault in transport
LookupOutcomes == {"ok", "non2xx", "transport"}

\* queryVulnersAPI: a rejected fetch and the Error thrown for !response.ok
\* are both logged by its catch block and thrown again
QueryVulnersAPI(o) == IF o = "ok" THEN "returned" ELSE "threw"

\* testOpenSSHVersion whose executor has no try/catch/finally: an exception
\* of the lookup leaves the promise it returned pending for ever
LookupSettles_NoFinally(q) == IF q = "threw" THEN "pending" ELSE "resolved"

\* state of the promise testOpenSSHVersion returned once the lookup has
\* ended: the catch block takes the exception and finally calls resolve()
LookupSettles(q) == IF q = "threw" THEN "resolved" ELSE "resolved"

\* the request to the Vulners API ends and the rest of testOpenSSHVersion
\* runs: the report on a 2xx answer, the catch block otherwise
TestOpenSSHVersion_Lookup ==
    /\ Idle /\ stage = "lookup"
    /\ \E o \in LookupOutcomes :
          /\ cause' = o
          /\ promise' = LookupSettles(QueryVulnersAPI(o))
          /\ result' = IF LookupSettles(QueryVulnersAPI(o)) = "resolved"
                         THEN Undefined ELSE result
    /\ UNCHANGED <<stage, sock, idle, elapsed, connected, bannerPromise,
                   banner, errKind, cert, lingering>>
    /\ UNCHANGED loopVars
    /\ UNCHANGED pureVars
    /\ UNCHANGED <<lookupVars, lateLines, walkVars>>

----------------------------------------------------------------------------
(* testSelfSignedCertificate (the same code in both revisions) *)

\* cert.issuer && cert.issuer.CN === cert.subject.CN ? false : true
SelfSignedResult(c) ==
    IF c.hasIssuer /\ c.issuerCN = c.subjectCN THEN "false" ELSE "true"

\* tls.connect callback: the handshake is done; resolve, then socket.end()
TestSelfSignedCertificate_SecureConnect ==
    /\ Idle /\ Check = "tls"
    /\ sock = "connecting"
    /\ \E c \in Certs :
          /\ cert' = c
          /\ result' = SelfSignedResult(c)
    /\ promise' = "resolved"
    /\ cause' = "handshake"
    /\ connected' = TRUE
    /\ sock' = "ended"
    /\ UNCHANGED <<stage, idle, elapsed, bannerPromise, banner, errKind, lingering>>
    /\ UNCHANGED loopVars
    /\ UNCHANGED pureVars
    /\ UNCHANGED <<lookupVars, lateLines, walkVars>>

\* on('error'): resolve(false)
TestSelfSignedCertificate_Error ==
    /\ Idle /\ Check = "tls"
    /\ sock = "connecting"
    /\ \E e \in PreConnectErrors \cup PostConnectErrors : errKind' = e
    /\ sock' = "destroyed"
    /\ promise' = "resolved"
    /\ result' = "false"
    /\ cause' = "error"
    /\ UNCHANGED <<stage, idle, elapsed, connected, bannerPromise, banner,
                   cert, lingering>>
    /\ UNCHANGED loopVars
    /\ UNCHANGED pureVars
    /\ UNCHANGED <<lookupVars, lateLines, walkVars>>

----------------------------------------------------------------------------
(* Service checks of the legacy revision (inline sockets) *)

LegacyProbe(c) ==
    /\ Idle /\ impl = "legacy" /\ Check = c

\* banner.match(/OpenSSH_([\d.]+)/): the captured group, <<>> for no match
OpenSSHVersionMatch(s) ==
    LET starts == { p \in 1..Len(s) :
                      /\ p + Len(S_OpenSSH_) <= Len(s)
                      /\ SubSeq(s, p, p + Len(S_OpenSSH_) - 1) = S_OpenSSH_
                      /\ VersionChar(s[p + Len(S_OpenSSH_)]) }
    IN  IF starts = {} THEN <<>>
        ELSE LET p == CHOOSE q \in starts : \A r \in starts : q <= r
                 f == p + Len(S_OpenSSH_)
             IN  SubSeq(s, f, RunEnd(s, f))

\* value the legacy testOpenSSHVersion resolves with for a banner
LegacyOpenSSHResult(b) ==
    LET version == OpenSSHVersionMatch(b)
    IN  IF version # <<>>
          THEN (IF version = <<"8", ".", "9", "p", "1">> THEN "false" ELSE "true")
          ELSE "false"

\* value the legacy testEmailServiceWithoutTLS resolves with for a banner
LegacyEmailResult(b) ==
    IF Includes(b, S_ESMTP) /\ ~Includes(b, S_STARTTLS) THEN "false" ELSE "true"

\* testMySQLService, connect callback: socket.destroy(); resolve(false)
LegacyMySQL_Connect ==
    /\ LegacyProbe("mysql")
    /\ sock = "connecting"
    /\ sock' = "destroyed"
    /\ connected' = TRUE
    /\ promise' = "resolved"
    /\ result' = "false"
    /\ cause' = "connect"
    /\ UNCHANGED <<stage, idle, elapsed, bannerPromise, banner, errKind, cert, lingering>>
    /\ UNCHANGED loopVars
    /\ UNCHANGED pureVars
    /\ UNCHANGED <<lookupVars, lateLines, walkVars>>

\* connect callback of the mail and SSH checks: registers once('data')
Legacy_Connect ==
    /\ LegacyProbe("mail") \/ LegacyProbe("ssh")
    /\ sock = "connecting"
    /\ sock' = "connected"
    /\ connected' = TRUE
    /\ idle' = 0
    /\ UNCHANGED <<stage, elapsed, bannerPromise, banner, errKind, cert,
                   cause, promise, result, lingering>>
    /\ UNCHANGED loopVars
    /\ UNCHANGED pureVars
    /\ UNCHANGED <<lookupVars, lateLines, walkVars>>

\* testEmailServiceWithoutTLS, once('data')
LegacyEmail_Data ==
    /\ LegacyProbe("mail")
    /\ sock = "connected"
    /\ \E b \in Banners :
          /\ banner' = b
          /\ result' = LegacyEmailResult(b)
    /\ promise' = "resolved"
    /\ sock' = "destroyed"
    /\ cause' = "data"
    /\ UNCHANGED <<stage, idle, elapsed, connected, bannerPromise, errKind, cert, lingering>>
    /\ UNCHANGED loopVars
    /\ UNCHANGED pureVars
    /\ UNCHANGED <<lookupVars, lateLines, walkVars>>

\* testOpenSSHVersion, once('data')
LegacyOpenSSH_Data ==
    /\ LegacyProbe("ssh")
    /\ sock = "connected"
    /\ \E b \in Banners :
          /\ banner' = b
          /\ result' = LegacyOpenSSHResult(b)
    /\ promise' = "resolved"
    /\ sock' = "destroyed"
    /\ cause' = "data"
    /\ UNCHANGED <<stage, idle, elapsed, connected, bannerPromise, errKind, cert, lingering>>
    /\ UNCHANGED loopVars
    /\ UNCHANGED pureVars
    /\ UNCHANGED <<lookupVars, lateLines, walkVars>>

\* on('error') of the three socket checks: resolve(true)
Legacy_Error ==
    /\ LegacyProbe("mysql") \/ LegacyProbe("mail") \/ LegacyProbe("ssh")
    /\ sock \in {"connecting", "connected"}
    /\ \E e \in (IF sock = "connecting" THEN PreConnectErrors ELSE PostConnectErrors) :
          errKind' = e
    /\ sock' = "destroyed"
    /\ promise' = "resolved"
    /\ result' = "true"
    /\ cause' = "error"
    /\ UNCHANGED <<stage, idle, elapsed, connected, bannerPromise, banner, cert, lingering>>
    /\ UNCHANGED loopVars
    /\ UNCHANGED pureVars
    /\ UNCHANGED <<lookupVars, lateLines, walkVars>>

\* on('timeout') of the three socket checks: socket.destroy(); resolve(true)
Legacy_Timeout ==
    /\ LegacyProbe("mysql") \/ LegacyProbe("mail") \/ LegacyProbe("ssh")
    /\ sock \in {"connecting", "connected"}
    /\ idle = TIMEOUT
    /\ errKind' = "timeout"
    /\ sock' = "destroyed"
    /\ promise' = "resolved"
    /\ result' = "true"
    /\ cause' = "timeout"
    /\ UNCHANGED <<stage, idle, elapsed, connected, bannerPromise, banner, cert, lingering>>
    /\ UNCHANGED loopVars
    /\ UNCHANGED pureVars
    /\ UNCHANGED <<lookupVars, lateLines, walkVars>>

----------------------------------------------------------------------------
(* parseVulnerabilities *)

S_low == <<"l","o","w">>
S_medium == <<"m","e","d","i","u","m">>
S_high == <<"h","i","g","h">>
S_critical == <<"c","r","i","t","i","c","a","l">>

\* the keys of the object literal the function starts from
BucketKeys == {S_low, S_medium, S_high, S_critical}

\* const vulnerabilities = { low: [], medium: [], high: [], critical: [] }
EmptyBuckets == [key \in BucketKeys |-> <<>>]

\* the lower-case names every object literal inherits from Object.prototype:
\* reading one of them on the buckets object gives a function or an object,
\* not undefined
S_constructor == <<"c","o","n","s","t","r","u","c","t","o","r">>
S_proto == <<"_","_","p","r","o","t","o","_","_">>
ObjectPrototypeKeys == {S_constructor, S_proto}

\* the object pushed for a vulnerability of the response
Finding(v) == [title |-> v.title, cvss_severity |-> v.severity]

\* the push that creates a bucket for a severity it does not know
Push_CreatesBucket(st, v) ==
    LET severity == ToLowerCase(v.severity)
    IN  IF st.threw THEN st
        ELSE IF severity \in DOMAIN st.value
          THEN [st EXCEPT !.value[severity] = Append(@, Finding(v))]
          ELSE [st EXCEPT !.value =
                   [key \in (DOMAIN st.value) \cup {severity} |->
                       IF key = severity THEN <<Finding(v)>> ELSE st.value[key]]]

\* the findings added at the front of the bucket (unshift for push)
Push_Unshift(st, v) ==
    LET severity == ToLowerCase(v.severity)
    IN  IF st.threw THEN st
        ELSE IF severity \in DOMAIN st.value
          THEN [st EXCEPT !.value[severity] = <<Finding(v)>> \o @]
          ELSE [st EXCEPT !.threw = TRUE]

\* the push with optional chaining (vulnerabilities[severity]?.push): a
\* severity that names nothing is skipped without an error
Push_SkipsUnknown(st, v) ==
    LET severity == ToLowerCase(v.severity)
    IN  IF st.threw THEN st
        ELSE IF severity \in DOMAIN st.value
          THEN [st EXCEPT !.value[severity] = Append(@, Finding(v))]
          ELSE IF severity \in ObjectPrototypeKeys
            THEN [st EXCEPT !.threw = TRUE]
            ELSE st

\* vulnerabilities[severity].push({...}) with severity lower-cased: an own
\* key gives its array; a name Object.prototype provides gives a value that
\* has no push method, and any other name gives undefined: both make the
\* call throw a TypeError, which ends the function
Push(st, v) ==
    LET severity == ToLowerCase(v.severity)
    IN  IF st.threw THEN st
        ELSE IF severity \in DOMAIN st.value
          THEN [st EXCEPT !.value[severity] = Append(@, Finding(v))]
          ELSE IF severity \in ObjectPrototypeKeys
            THEN [st EXCEPT !.threw = TRUE]
            ELSE [st EXCEPT !.threw = TRUE]

\* res.vulnerabilities.forEach(...), from vulnerability j on
RECURSIVE ForEachVulnerability(_, _, _)
ForEachVulnerability(st, vulns, j) ==
    IF j > Len(vulns) THEN st
    ELSE ForEachVulnerability(Push(st, vulns[j]), vulns, j + 1)

\* result.result.forEach(...), from entry e on
RECURSIVE ForEachResult(_, _, _)
ForEachResult(st, entries, e) ==
    IF e > Len(entries) THEN st
    ELSE ForEachResult(ForEachVulnerability(st, entries[e], 1), entries, e + 1)

\* function parseVulnerabilities(result): threw tells that it ended by an
\* exception, value is the object it returns otherwise
ParseVulnerabilities(r) ==
    IF r.kind = "object" /\ r.hasResult
      THEN ForEachResult([threw |-> FALSE, value |-> EmptyBuckets], r.result, 1)
      ELSE [threw |-> FALSE, value |-> EmptyBuckets]

\* severities of the findings of a response
Severities ==
    { S_low, <<"L","O","W">>, <<"M","e","d","i","u","m">>, S_high, <<"C","r","i","t","i","c","a","l">>, <<"n","o","n","e">>,
      <<"C","o","n","s","t","r","u","c","t","o","r">> }

SeverityLists == UNION { [1..n -> Severities] : n \in 0..MaxVulns }
SeverityMatrices == UNION { [1..n -> SeverityLists] : n \in 0..MaxEntries }

\* the response whose entries carry findings of the given severities, each
\* finding with a title of its own
ResponseOf(m) ==
    [kind |-> "object", hasResult |-> TRUE,
     result |-> [e \in 1..Len(m) |->
                   [j \in 1..Len(m[e]) |->
                       [title |-> 10 * e + j, severity |-> m[e][j]]]]]

\* values parseVulnerabilities is applied to: null, undefined, an object
\* without result, and objects with a result list
Responses ==
    { [kind |-> "null", hasResult |-> FALSE, result |-> <<>>],
      [kind |-> "undefined", hasResult |-> FALSE, result |-> <<>>],
      [kind |-> "object", hasResult |-> FALSE, result |-> <<>>] }
    \cup { ResponseOf(m) : m \in SeverityMatrices }

----------------------------------------------------------------------------
(* The pure functions applied to bounded inputs *)

PureInit ==
    /\ impl = "api"
    /\ pc = "dns"
    /\ dnsOutcome = "none"
    /\ ipAddresses = <<>>
    /\ i = 1
    /\ k = 1
    /\ started = <<>>
    /\ finished = 0
    /\ stage = "none"
    /\ sock = "none"
    /\ idle = 0
    /\ elapsed = 0
    /\ connected = FALSE
    /\ bannerPromise = "none"
    /\ banner = NoBanner
    /\ errKind = "none"
    /\ cert = EmptyCert
    /\ cause = "none"
    /\ promise = "none"
    /\ result = "none"
    /\ lingering = {}
    /\ lookups = 0
    /\ query = NoQuery
    /\ lateLines = {}
    /\ currentUrl = NoUrl
    /\ redirectChain = <<>>
    /\ pureDone = FALSE
    /\ pureRet = <<>>
    /\ \/ pureFn = "infer" /\ pureArg \in InferBanners
       \/ pureFn = "parse" /\ pureArg \in Responses

\* inferSystemDetails(banner) is called
InferSystemDetails_Apply ==
    /\ pureFn = "infer" /\ ~pureDone
    /\ pureRet' = InferSystemDetails(pureArg)
    /\ pureDone' = TRUE
    /\ UNCHANGED <<pureFn, pureArg, lingering>>
    /\ UNCHANGED loopVars
    /\ UNCHANGED probeVars
    /\ UNCHANGED <<lookupVars, lateLines, walkVars>>

\* parseVulnerabilities(result) is called
ParseVulnerabilities_Apply ==
    /\ pureFn = "parse" /\ ~pureDone
    /\ pureRet' = ParseVulnerabilities(pureArg)
    /\ pureDone' = TRUE
    /\ UNCHANGED <<pureFn, pureArg, lingering>>
    /\ UNCHANGED loopVars
    /\ UNCHANGED probeVars
    /\ UNCHANGED <<lookupVars, lateLines, walkVars>>

PureNext ==
    \/ InferSystemDetails_Apply
    \/ ParseVulnerabilities_Apply

PureSpec == PureInit /\ [][PureNext]_vars

----------------------------------------------------------------------------
(* Specifications *)

Next ==
    \/ GetIpAddresses
    \/ StartCheck
    \/ AwaitResume
    \/ LoopExit
    \/ HttpInspection
    \/ TestRedirectChainAndHTTPS_Hop
    \/ HttpInspection_Rest
    \/ Tick
    \/ LingerClose
    \/ TestSelfSignedCertificate_LateError
    \/ GetHostBanner_Connect
    \/ GetHostBanner_Data
    \/ GetHostBanner_Error
    \/ GetHostBanner_Timeout
    \/ TestMySQLService
    \/ TestEmailServiceWithoutTLS
    \/ TestOpenSSHVersion
    \/ TestOpenSSHVersion_Lookup
    \/ TestSelfSignedCertificate_SecureConnect
    \/ TestSelfSignedCertificate_Error
    \/ LegacyMySQL_Connect
    \/ Legacy_Connect
    \/ LegacyEmail_Data
    \/ LegacyOpenSSH_Data
    \/ Legacy_Error
    \/ Legacy_Timeout

Spec == Init /\ [][Next]_vars

\* The event loop runs every pending continuation and fires every due timer;
\* time passes.  What the peers and the Vulners API do is not fair: a peer
\* may stay silent for ever.  The web server under inspection answers every
\* request of the redirect walk (or the request fails).
FairSpec ==
    /\ Spec
    /\ WF_vars(GetIpAddresses)
    /\ WF_vars(StartCheck)
    /\ WF_vars(AwaitResume)
    /\ WF_vars(LoopExit)
    /\ WF_vars(HttpInspection \/ TestRedirectChainAndHTTPS_Hop \/ HttpInspection_Rest)
    /\ WF_vars(Tick)
    /\ WF_vars(GetHostBanner_Timeout)
    /\ WF_vars(Legacy_Timeout)
    /\ WF_vars(TestMySQLService)
    /\ WF_vars(TestEmailServiceWithoutTLS)
    /\ WF_vars(TestOpenSSHVersion)

\* The redirect walk alone: every request it sends is answered or fails.
WalkFairSpec ==
    /\ Spec
    /\ WF_vars(TestRedirectChainAndHTTPS_Hop)

TypeOK ==
    /\ impl \in {"api", "legacy"}
    /\ pc \in {"dns", "loop", "await", "http", "walk", "inspect", "done"}
    /\ i \in 1..(MaxAddrs + 1)
    /\ k \in 1..Len(CheckOrder)
    /\ finished \in 0..(MaxAddrs * Len(CheckOrder))
    /\ sock \in {"none", "connecting", "connected", "ended", "destroyed"}
    /\ idle \in 0..TIMEOUT
    /\ elapsed \in 0..MaxElapsed
    /\ result \in {"none", "true", "false", Undefined}
    /\ promise \in {"none", "pending", "resolved"}
    /\ lookups \in 0..1
    /\ Len(redirectChain) <= MaxChain
    /\ \A c \in 1..Len(redirectChain) : redirectChain[c] \in Locations
    /\ lateLines \subseteq { [addr |-> Addresses[a], port |-> Port("tls")] : a \in 1..Len(Addresses) }

----------------------------------------------------------------------------
(* Properties *)

Settled == pc = "await" /\ promise = "resolved"
ProbePending == pc = "await" /\ stage = "probe" /\ sock \in {"connecting", "connected"}

\* C1: whenever the promise returned by getHostBanner has settled (resolved
\* with a banner, rejected by a socket error or by the timeout) its socket is
\* destroyed, and no getHostBanner probe leaves a socket open behind it.
C1_BannerSocketDestroyed ==
    /\ bannerPromise \in {"resolved", "rejected"} => sock = "destroyed"
    /\ impl = "api" => \A s \in lingering : s.port = Port("tls")

\* a getHostBanner probe that ended by the timeout, after the connect
C1_Witness ==
    /\ bannerPromise = "rejected"
    /\ errKind = "timeout"
    /\ connected
    /\ sock = "destroyed"

\* C2 (as claimed): no socket probe is still unsettled more than TIMEOUT
\* seconds after connect initiation.
C2_SettlesWithinTimeout ==
    ProbePending => elapsed <= TIMEOUT

\* C3 (as claimed): the scan eventually reaches its end, every check promise
\* having resolved.
C3_ScanCompletes ==
    <>(pc = "done")

\* C4: the checks are started in the order 3306, 443, 25, 22 for each
\* address, address after address in the resolver's order, and a check is
\* started only when every check started before it has been awaited.
C4_SequentialFixedOrder ==
    /\ \A n \in 1..Len(started) :
          /\ started[n].port = <<3306, 443, 25, 22>>[((n - 1) % 4) + 1]
          /\ started[n].addr = ipAddresses[((n - 1) \div 4) + 1]
    /\ Len(started) <= finished + 1
    /\ pc = "loop" => Len(started) = finished

\* the first check of the second address has been started
C4_Witness ==
    /\ Len(started) = 5
    /\ finished = 4
    /\ pc = "await"

\* C5 (as claimed): at most one probe socket is open at any time.
C5_OneSocketAtATime ==
    Cardinality(OpenSockets) <= 1

C7_RefusedIsSecure ==
    (Settled /\ errKind = "ECONNREFUSED" /\ Check \in {"mysql", "mail", "ssh"})
        => result = "true"

\* C8 (as claimed): testMySQLService resolves false whenever the connection
\* was established, and true only for a refused connection or a connect
\* attempt that timed out.
C8_MySQLExposure ==
    (Settled /\ Check = "mysql") =>
        /\ connected => result = "false"
        /\ result = "true" => (~connected /\ errKind \in {"ECONNREFUSED", "timeout"})

\* C9 (as claimed): testEmailServiceWithoutTLS resolves false exactly when a
\* banner was read that contains ESMTP and not STARTTLS, and true for a
\* refused or timed-out connection.
C9_MailVerdict ==
    (Settled /\ Check = "mail") =>
        /\ result = "false" <=>
              (cause = "data" /\ Includes(banner, S_ESMTP) /\ ~Includes(banner, S_STARTTLS))
        /\ errKind \in {"ECONNREFUSED", "timeout"} => result = "true"
        /\ result \in {"true", "false"}

\* C10 (as claimed): testSelfSignedCertificate resolves true only after a
\* handshake whose certificate has an issuer CN different from its subject
\* CN, false for equal CNs and for a failed connection, and nothing else.
C10_CertificateVerdict ==
    (Settled /\ Check = "tls") =>
        /\ result \in {"true", "false"}
        /\ result = "true" => (cause = "handshake" /\ cert.issuerCN # cert.subjectCN)
        /\ (cause = "handshake" /\ cert.issuerCN = cert.subjectCN) => result = "false"
        /\ cause = "error" => result = "false"

\* C11 (as claimed): a banner-based check that hits a socket error other
\* than refused or timeout resolves with a value that is neither the secure
\* nor the insecure one.
C11_OtherErrorIsIndeterminate ==
    (Settled /\ Check \in {"mysql", "mail", "ssh"}
             /\ errKind \in {"EHOSTUNREACH", "ECONNRESET"})
        => result \notin {"true", "false"}

\* C12: getHostBanner's promise is resolved only by a data chunk, which is
\* then the banner; a probe whose timeout fired is rejected as timed out
\* with no banner; and once the promise has settled, nothing changes its
\* state, its banner or its error while the check runs.
C12_BannerSettlesOnce ==
    /\ [](/\ bannerPromise = "resolved" =>
                (banner \in Banners /\ errKind = "none" /\ sock = "destroyed")
          /\ (UsesBanner /\ errKind = "timeout") =>
                (bannerPromise = "rejected" /\ banner = NoBanner)
          /\ bannerPromise = "rejected" => banner = NoBanner)
    /\ [][(bannerPromise \in {"resolved", "rejected"} /\ pc' = "await") =>
             (bannerPromise' = bannerPromise /\ banner' = banner /\ errKind' = errKind)]_vars

\* a chunk that arrived at the last instant of the window became the banner
C12_Witness ==
    /\ bannerPromise = "resolved"
    /\ idle = TIMEOUT
    /\ banner # NoBanner

----------------------------------------------------------------------------
(* Properties of the pure functions, under PureSpec *)

InferDone == pureFn = "infer" /\ pureDone
ParseDone == pureFn = "parse" /\ pureDone

\* the OS keywords and their vendors in the order the specification lists them
KeywordOrder ==
    << [product |-> <<"u","b","u","n","t","u">>,
        vendor |-> <<"c","a","n","o","n","i","c","a","l">>],
       [product |-> <<"d","e","b","i","a","n">>,
        vendor |-> <<"d","e","b","i","a","n">>],
       [product |-> <<"c","e","n","t","o","s">>,
        vendor |-> <<"c","e","n","t","o","s">>],
       [product |-> <<"e","n","t","e","r","p","r","i","s","e","_","l","i","n","u","x">>,
        vendor |-> <<"r","e","d","h","a","t">>],
       [product |-> <<"f","e","d","o","r","a">>,
        vendor |-> <<"f","e","d","o","r","a">>],
       [product |-> <<"a","l","p","i","n","e","_","l","i","n","u","x">>,
        vendor |-> <<"a","l","p","i","n","e">>],
       [product |-> <<"a","m","a","z","o","n","_","l","i","n","u","x">>,
        vendor |-> <<"a","m","a","z","o","n">>] >>

\* the entries of KeywordOrder whose keyword occurs in b, whatever the case
KeywordsIn(b) ==
    { n \in 1..Len(KeywordOrder) : Includes(ToLowerCase(b), KeywordOrder[n].product) }

AllDigits(b, from, to) == \A n \in from..to : b[n] \in Digits

\* an SSH-<digits>.<digits>-<token> signature begins at position q of b
SignatureAt(b, q) ==
    /\ q + 3 <= Len(b)
    /\ SubSeq(b, q, q + 3) = S_SSH
    /\ \E d1 \in (q + 4)..Len(b), d2 \in (q + 6)..Len(b) :
          /\ AllDigits(b, q + 4, d1)
          /\ d1 + 1 <= Len(b) /\ b[d1 + 1] = "."
          /\ d2 >= d1 + 2
          /\ AllDigits(b, d1 + 2, d2)
          /\ d2 + 2 <= Len(b)
          /\ b[d2 + 1] = "-"
          /\ b[d2 + 2] \notin Whitespace

\* keyword kw occurs at position p of b and is followed, after at most one
\* hyphen or whitespace character, by a digit or dot at position f
VersionFollows(b, kw, p, f) ==
    /\ p + Len(kw) - 1 <= Len(b)
    /\ ToLowerCase(SubSeq(b, p, p + Len(kw) - 1)) = kw
    /\ f \in {p + Len(kw), p + Len(kw) + 1}
    /\ f <= Len(b)
    /\ VersionChar(b[f])
    /\ f = p + Len(kw) + 1 => b[p + Len(kw)] \in VersionSeparators

\* v is the whole run of digits and dots of b that starts at f
IsRunFrom(b, f, v) ==
    \E e \in f..Len(b) :
        /\ \A n \in f..e : VersionChar(b[n])
        /\ e < Len(b) => ~VersionChar(b[e + 1])
        /\ v = SubSeq(b, f, e)

S_OpenSSH96 == <<"S","S","H","-","2",".","0","-","O","p","e","n","S","S","H","_","9",".","6">>
S_ubuntu2204 == <<"u","b","u","n","t","u","-","2","2",".","0","4">>
Software96 ==
    <<[part |-> "a", vendor |-> <<"o","p","e","n","b","s","d">>, product |-> <<"o","p","e","n","s","s","h">>, version |-> <<"9",".","6">>]>>
Ubuntu2204 ==
    [part |-> "o", vendor |-> <<"c","a","n","o","n","i","c","a","l">>, product |-> <<"u","b","u","n","t","u">>, version |-> <<"2","2",".","0","4">>]

\* C13 (as claimed): vendor, product and version of operating_system and of
\* every software entry are defined strings for every banner.
C13_FieldsPopulated ==
    InferDone =>
        /\ \A f \in {"vendor", "product", "version"} :
              pureRet.operating_system[f] # JsUndefined
        /\ \A n \in 1..Len(pureRet.software) :
              \A f \in {"vendor", "product", "version"} :
                  pureRet.software[n][f] # JsUndefined

\* C14: when a banner contains more than one OS keyword, product and vendor
\* are those of the keyword that comes first in the order ubuntu, debian,
\* centos, enterprise_linux, fedora, alpine_linux, amazon_linux.
C14_FirstTableEntryWins ==
    (InferDone /\ Cardinality(KeywordsIn(pureArg)) > 1) =>
        LET first == CHOOSE n \in KeywordsIn(pureArg) :
                        \A m \in KeywordsIn(pureArg) : n <= m
        IN  /\ pureRet.operating_system.product = KeywordOrder[first].product
            /\ pureRet.operating_system.vendor = KeywordOrder[first].vendor

\* a banner that names debian before ubuntu is identified as ubuntu
C14_Witness ==
    /\ InferDone
    /\ pureArg = <<" ","D","e","b","i","a","n"," ","1","2"," ","U","b","u","n","t","u","-","2","2",".","0","4">>
    /\ pureRet.operating_system.product = KeywordOrder[1].product

\* C15 (as claimed): every banner that contains SSH-2.0-OpenSSH_9.6 yields
\* exactly the software entry {a, openbsd, openssh, 9.6}.
C15_AnyBannerWithOpenSSH96 ==
    (InferDone /\ Includes(pureArg, S_OpenSSH96)) => pureRet.software = Software96

\* C15 (amended): a banner whose first SSH signature is SSH-2.0-OpenSSH_9.6
\* followed by whitespace or the end of the banner yields exactly the
\* software entry {a, openbsd, openssh, 9.6}.
C15_ExactOpenSSH96Token ==
    (InferDone /\ \E p \in 1..Len(pureArg) :
                     /\ p + Len(S_OpenSSH96) - 1 <= Len(pureArg)
                     /\ SubSeq(pureArg, p, p + Len(S_OpenSSH96) - 1) = S_OpenSSH96
                     /\ \/ p + Len(S_OpenSSH96) > Len(pureArg)
                        \/ pureArg[p + Len(S_OpenSSH96)] \in Whitespace
                     /\ \A q \in 1..(p - 1) : ~SignatureAt(pureArg, q))
        => pureRet.software = Software96

\* the signature followed by an OS part
C15_Witness ==
    /\ InferDone
    /\ pureArg = <<"S","S","H","-","2",".","0","-","O","p","e","n","S","S","H","_","9",".","6"," ","U","b","u","n","t","u","-","2","2",".","0","4">>
    /\ pureRet.software = Software96

\* C16 (as claimed): for a token with underscores, product is the lower-cased
\* text before the first underscore and version is everything after it.
C16_VersionIsRemainder ==
    LET t == SshSoftwareMatch(pureArg)
        u == UnderscoreIndex(t, 1)
    IN  (InferDone /\ t # <<>> /\ u # 0) =>
            /\ Len(pureRet.software) = 1
            /\ pureRet.software[1].vendor = S_openbsd
            /\ pureRet.software[1].product = ToLowerCase(SubSeq(t, 1, u - 1))
            /\ pureRet.software[1].version = SubSeq(t, u + 1, Len(t))

\* the version of the identified OS is the run of digits and dots after the
\* first occurrence of its keyword that has one, "unknown" when none has
OsVersionIsFollowingRun ==
    LET b == pureArg
        os == pureRet.operating_system
        kw == os.product
        hits == { pf \in UNION { {<<p, p + Len(kw)>>, <<p, p + Len(kw) + 1>>} : p \in 1..Len(b) } :
                    VersionFollows(b, kw, pf[1], pf[2]) }
    IN  os.product # S_unknown =>
            IF hits = {}
              THEN os.version = S_unknown
              ELSE LET pf == CHOOSE h \in hits : \A g \in hits : h[1] <= g[1]
                   IN  IsRunFrom(b, pf[2], os.version)

\* C17 (as claimed): the OS version is the run of digits and dots that
\* follows the keyword after at most one hyphen or whitespace character,
\* "unknown" when there is none; and every banner that contains ubuntu-22.04
\* yields {canonical, ubuntu, 22.04}.
C17_VersionAfterKeyword ==
    InferDone =>
        /\ OsVersionIsFollowingRun
        /\ Includes(pureArg, S_ubuntu2204) => pureRet.operating_system = Ubuntu2204

\* C17 (amended): as C17, but the banner yields {canonical, ubuntu, 22.04}
\* when ubuntu-22.04 is not followed by a further digit or dot and no earlier
\* occurrence of ubuntu is followed by a version.
C17_VersionAfterFirstKeyword ==
    InferDone =>
        /\ OsVersionIsFollowingRun
        /\ (\E p \in 1..Len(pureArg) :
               /\ p + Len(S_ubuntu2204) - 1 <= Len(pureArg)
               /\ SubSeq(pureArg, p, p + Len(S_ubuntu2204) - 1) = S_ubuntu2204
               /\ \/ p + Len(S_ubuntu2204) > Len(pureArg)
                  \/ ~VersionChar(pureArg[p + Len(S_ubuntu2204)])
               /\ \A q \in 1..(p - 1), d \in {0, 1} :
                      ~VersionFollows(pureArg, KeywordOrder[1].product, q,
                                      q + Len(KeywordOrder[1].product) + d))
           => pureRet.operating_system = Ubuntu2204

\* ubuntu-22.04 after another OS keyword and its version
C17_Witness ==
    /\ InferDone
    /\ pureArg = <<" ","D","e","b","i","a","n"," ","1","2"," ","u","b","u","n","t","u","-","2","2",".","0","4">>
    /\ pureRet.operating_system = Ubuntu2204

\* C18: a banner with no OS keyword and no SSH signature yields the
\* all-unknown operating system and no software.
C18_NothingRecognised ==
    (InferDone /\ KeywordsIn(pureArg) = {}
               /\ \A q \in 1..Len(pureArg) : ~SignatureAt(pureArg, q))
        => /\ pureRet.operating_system =
                 [part |-> "o", vendor |-> S_unknown, product |-> S_unknown,
                  version |-> S_unknown]
           /\ pureRet.software = <<>>

\* a lower-case ssh- prefix and an unlisted OS name are not recognised
C18_Witness ==
    /\ InferDone
    /\ pureArg = <<"s","s","h","-","2",".","0","-","O","p","e","n","S","S","H","_","9",".","6"," ","l","i","n","u","x"," ","5",".","4">>
    /\ pureRet.software = <<>>

\* the findings of a response in response order: result entries in order,
\* each entry's vulnerabilities in order
RECURSIVE Flatten(_)
Flatten(entries) ==
    IF entries = <<>> THEN <<>> ELSE Head(entries) \o Flatten(Tail(entries))

\* the findings of fs whose lower-cased severity is key, in the same order
RECURSIVE OfSeverity(_, _)
OfSeverity(fs, key) ==
    IF fs = <<>> THEN <<>>
    ELSE IF ToLowerCase(Head(fs).severity) = key
      THEN <<[title |-> Head(fs).title, cvss_severity |-> Head(fs).severity]>>
              \o OfSeverity(Tail(fs), key)
      ELSE OfSeverity(Tail(fs), key)

\* C19: when every finding carries one of the four severities in any letter
\* case, each bucket holds exactly the findings of its lower-cased severity in
\* response order, and the four bucket lengths sum to the number of findings.
C19_BucketsPartitionInOrder ==
    (ParseDone /\ pureArg.kind = "object" /\ pureArg.hasResult
               /\ \A f \in 1..Len(Flatten(pureArg.result)) :
                     ToLowerCase(Flatten(pureArg.result)[f].severity)
                        \in {S_low, S_medium, S_high, S_critical})
        => /\ ~pureRet.threw
           /\ \A key \in {S_low, S_medium, S_high, S_critical} :
                 pureRet.value[key] = OfSeverity(Flatten(pureArg.result), key)
           /\ Len(pureRet.value[S_low]) + Len(pureRet.value[S_medium])
                + Len(pureRet.value[S_high]) + Len(pureRet.value[S_critical])
                = Len(Flatten(pureArg.result))

\* two findings of one severity, in different letter case and in different
\* result entries, land in the same bucket in response order
C19_Witness ==
    /\ ParseDone
    /\ pureArg.kind = "object" /\ pureArg.hasResult
    /\ ~pureRet.threw
    /\ Len(pureArg.result) = 2
    /\ Len(pureRet.value[S_low]) = 2
    /\ pureRet.value[S_low][1].title < pureRet.value[S_low][2].title
    /\ pureRet.value[S_low][1].cvss_severity # pureRet.value[S_low][2].cvss_severity
    /\ Len(pureRet.value[S_high]) = 2

\* C20: every value parseVulnerabilities returns has exactly the keys low,
\* medium, high and critical, each mapped to a sequence.
C20_FourBucketsAlways ==
    (ParseDone /\ ~pureRet.threw) =>
        /\ DOMAIN pureRet.value = {S_low, S_medium, S_high, S_critical}
        /\ \A key \in DOMAIN pureRet.value :
              DOMAIN pureRet.value[key] = 1..Len(pureRet.value[key])

\* a response whose result entries all have empty vulnerability lists
C20_Witness ==
    /\ ParseDone
    /\ pureArg.kind = "object" /\ pureArg.hasResult
    /\ Len(pureArg.result) = MaxEntries
    /\ \A e \in 1..Len(pureArg.result) : pureArg.result[e] = <<>>
    /\ ~pureRet.threw
    /\ \A key \in DOMAIN pureRet.value : pureRet.value[key] = <<>>

\* C21: a finding whose lower-cased severity is none of low, medium, high,
\* critical (a name that is no property at all, or the name of an inherited
\* property) makes parseVulnerabilities end by an exception: no value is
\* returned, so the finding is neither dropped nor stored under a fifth key.
C21_UnknownSeverityThrows ==
    (ParseDone /\ pureArg.kind = "object" /\ pureArg.hasResult
               /\ \E f \in 1..Len(Flatten(pureArg.result)) :
                     ToLowerCase(Flatten(pureArg.result)[f].severity)
                        \notin {S_low, S_medium, S_high, S_critical})
        => pureRet.threw

\* a response with a known finding followed, in a later entry, by a finding
\* whose severity Constructor names an inherited property
C21_Witness ==
    /\ ParseDone
    /\ pureArg.kind = "object" /\ pureArg.hasResult
    /\ Len(pureArg.result) = 2
    /\ Len(pureArg.result[1]) = 1 /\ Len(pureArg.result[2]) = 1
    /\ ToLowerCase(pureArg.result[1][1].severity) = S_high
    /\ pureArg.result[2][1].severity = <<"C","o","n","s","t","r","u","c","t","o","r">>
    /\ pureRet.threw

\* the version string the hard-coded check is written against
S_OpenSSH_89p1 == <<"O","p","e","n","S","S","H","_","8",".","9","p","1">>

\* C24: the hard-coded check of network.js resolves false for every banner
\* that advertises OpenSSH_8.9p1, true for a banner with any other parsable
\* OpenSSH version, and false when no OpenSSH version can be parsed.
C24_HardCodedVersionVerdict ==
    (Settled /\ impl = "legacy" /\ Check = "ssh" /\ cause = "data")
        => result = IF Includes(banner, S_OpenSSH_89p1) THEN "false"
                    ELSE IF OpenSSHVersionMatch(banner) # <<>> THEN "true"
                    ELSE "false"

\* the lookup of the running api SSH check has failed: the Vulners API
\* answered with a non-2xx status or the request failed in transport
LookupFailed ==
    /\ pc = "await" /\ impl = "api" /\ Check = "ssh" /\ stage = "lookup"
    /\ cause \in {"non2xx", "transport"}

\* C22: when the Vulners API answers with a non-2xx status or the request
\* fails in transport, queryVulnersAPI throws, the promise of the SSH check
\* of the current address is resolved all the same, the loop takes it as
\* finished and moves on to the next address, and from there it starts the
\* first check of that address or, with no address left, the HTTP inspection.
C22_LookupFailureContained ==
    /\ [](LookupFailed =>
            /\ QueryVulnersAPI(cause) = "threw"
            /\ promise = "resolved"
            /\ result = Undefined)
    /\ [][LookupFailed =>
            /\ pc' = "loop"
            /\ finished' = finished + 1
            /\ i' = i + 1 /\ k' = 1
            /\ ipAddresses' = ipAddresses]_vars
    /\ [][(pc = "loop" /\ i <= Len(ipAddresses)) =>
            /\ pc' = "await"
            /\ started' = Append(started, [addr |-> ipAddresses[i],
                                            port |-> Port(CheckOrder[k])])]_vars
    /\ [][(pc = "loop" /\ i > Len(ipAddresses)) => pc' = "http"]_vars

\* the lookup for the first of two addresses has failed with a non-2xx
\* answer and the check promise is resolved
C22_Witness ==
    /\ LookupFailed
    /\ cause = "non2xx"
    /\ promise = "resolved"
    /\ i = 1 /\ Len(ipAddresses) = 2

\* C23: one invocation of the api testOpenSSHVersion sends at most one query
\* to the Vulners API, sends it only once a banner has been read from port
\* 22, builds it from what inferSystemDetails makes of that banner, and sends
\* none when the banner probe was refused, timed out or failed.
C23_OneQueryAfterBanner ==
    /\ [](/\ lookups <= 1
          /\ lookups = 1 =>
                /\ pc = "await" /\ impl = "api" /\ Port(Check) = 22
                /\ bannerPromise = "resolved" /\ banner \in Banners
                /\ query.software = InferSystemDetails(banner).software
                /\ query.operating_system = InferSystemDetails(banner).operating_system
                /\ (banner = S_OpenSSH96 => query.software = Software96)
          /\ (pc = "await" /\ bannerPromise # "resolved") =>
                (lookups = 0 /\ query = NoQuery)
          /\ stage = "lookup" => lookups = 1)
    /\ [][lookups' > lookups =>
            (lookups = 0 /\ Check = "ssh" /\ bannerPromise = "resolved"
               /\ banner # NoBanner)]_vars

\* the query for the banner SSH-2.0-OpenSSH_9.6 has been sent and answered
C23_Witness ==
    /\ Settled
    /\ lookups = 1
    /\ banner = S_OpenSSH96
    /\ query.software = Software96
    /\ cause = "ok"

\* C25: no invocation of a service check prints an outcome line after it has
\* settled: once a check has reported and fixed its result, no later event
\* of its socket makes it report again.
C25_OneOutcomePerInvocation == lateLines = {}

\* C26: the redirect walk of testRedirectChainAndHTTPS ends, whatever the
\* target server answers.
C26_WalkTerminates == (pc = "walk") ~> (pc # "walk")

====
